---- MODULE Spec2Model ----
(***************************************************************************)
(* A model of ovh_reconciler.py: the Record value type with its custom     *)
(* equality and hash, the line parser (the four regular expressions and    *)
(* the ttl / default-ttl handling), the zone loader, the fetch of the zone *)
(* from the provider, and the reconciler with the dry-run aware gateway    *)
(* calls, alone and as main runs them one after the other.                 *)
(*                                                                         *)
(* Strings of the program are sequences of one-character strings, so that  *)
(* the regular expressions can be modelled character by character.         *)
(***************************************************************************)
EXTENDS Integers, Sequences, FiniteSets, TLC

VARIABLES
    dry_run,        \* the --dry_run flag
    default_ttl,    \* the --default_ttl flag (None when unset)
    my_ip,          \* parse_input's my_ip: {} for None, {s} for the string s
    r1, r2,         \* two Records being compared (SpecRecord)
    cmp,            \* the outcome of comparing and hashing r1 and r2
    parts,          \* the tokens the current input line was written from
    line,           \* the current input line, as read
    parsed,         \* parse_line's result for the line (NoRecord for None)
    i,              \* parse_input's line counter
    records,        \* parse_input's set of Records
    records_per_type, \* parse_input's lists of parsed Records, by type
    intent,         \* reconcile's first argument
    current,        \* reconcile's second argument
    pc,             \* the position of the run
    to_add,         \* reconcile's to_add
    to_remove,      \* reconcile's to_remove
    pending,        \* what the running for loop has not visited yet
    add_calls,      \* the add_record invocations, in order
    delete_calls,   \* the delete_record invocations, in order
    client_log,     \* the client.post / client.delete calls, in order
    ret,            \* the value the last add_record returned
    run,            \* 1 in the first reconcile, 2 in a repeated one
    first,          \* what the first reconcile created and deleted
    zone,           \* the records the provider holds for the zone
    types_left,     \* main's `for type in ALLOWED_TYPES`: the types to come
    record_ids,     \* fetch_records' record_ids, those not visited yet
    fetched         \* fetch_records' local set `records`

vars == <<dry_run, default_ttl, my_ip, r1, r2, cmp, parts, line, parsed, i,
          records, records_per_type, intent, current, pc, to_add, to_remove, pending,
          add_calls, delete_calls, client_log, ret, run, first,
          zone, types_left, record_ids, fetched>>

cfgVars == <<dry_run, default_ttl, my_ip>>
recVars == <<r1, r2, cmp>>
parseVars == <<parts, line, parsed>>
loadVars == <<i, records, records_per_type>>
runVars == <<intent, current, to_add, to_remove, pending, add_calls,
             delete_calls, client_log, ret, run, first>>
fetchVars == <<zone, types_left, record_ids, fetched>>

----------------------------------------------------------------------------
(* Values *)

\* Python's None, for an int | None field: no ttl is negative.
None == -1

\* parse_line's None result.
NoRecord == [none |-> TRUE]

\* Python truthiness of an int | None value: None and 0 are falsy.
Truthy(x) == x # None /\ x # 0

\* class Type(Enum)
Type == {"A", "AAAA", "CNAME", "DKIM", "DMARC", "DNAME", "LOC", "MX",
         "NAPTR", "NS", "SPF", "SRV", "SSHFP", "TLSA", "TXT"}

\* The types that are reconciled.
ALLOWED_TYPES == {"A", "AAAA", "CNAME", "TXT"}

\* class Record(NamedTuple)
Record(type, subdomain, target, id, ttl) ==
    [type |-> type, subdomain |-> subdomain, target |-> target,
     id |-> id, ttl |-> ttl]

\* Record.__eq__
Eq(self, other) ==
    IF self.type # other.type THEN FALSE
    ELSE IF self.subdomain # other.subdomain THEN FALSE
    ELSE IF self.target # other.target THEN FALSE
    ELSE IF Truthy(self.ttl) /\ Truthy(other.ttl) /\ self.ttl # other.ttl
         THEN FALSE
    ELSE TRUE

\* Record.__hash__: hash((type, subdomain, target, ttl or 0)).  The tuple
\* stands for its hash: CPython's tuple hash is a bijection of the running
\* accumulator in each lane, so two such tuples that differ only in the last
\* lane (two small non-negative ints) never hash alike.
Hash(self) ==
    <<self.type, self.subdomain, self.target,
      IF Truthy(self.ttl) THEN self.ttl ELSE 0>>

----------------------------------------------------------------------------
(* Python's set, as reconcile and parse_input use it.  A lookup finds an   *)
(* entry only if the stored hash equals the key's hash and then the entry  *)
(* is the key or compares equal to it.                                     *)

SetFinds(entry, key) ==
    Hash(entry) = Hash(key) /\ (entry = key \/ Eq(entry, key))

\* key in s
PyContains(s, key) == \E entry \in s : SetFinds(entry, key)

\* s.add(key): an entry already found stays, the key is dropped.
PyAdd(s, key) == IF PyContains(s, key) THEN s ELSE s \cup {key}

\* s.difference(t): the entries of s not found in t.
PyDifference(s, t) == {key \in s : ~PyContains(t, key)}

\* s.union(t): a copy of s, then every entry of t added.  The order in
\* which t is walked does not matter: two entries of t that find each other
\* cannot both be in t.
PyUnion(s, t) == s \cup {key \in t : ~PyContains(s, key)}

\* What a Python set of Records can hold: no entry finds another.
IsPySet(s) == \A x \in s : \A y \in s : x # y => ~SetFinds(x, y)

----------------------------------------------------------------------------
(* The Records the runs are drawn from *)

Foo == <<"f", "o", "o">>
Ip1 == <<"1", "0", ".", "0", ".", "0", ".", "1">>
Ip2 == <<"1", "0", ".", "0", ".", "0", ".", "2">>

\* The most Records intent and current hold together.
MaxRecords == 3

RunTypes == {"A", "MX"}
RunTtls == {None, 0, 10, 20}

\* Records as the caller wrote them: no provider id yet.
IntentUniverse ==
    {Record(t, Foo, tg, 0, ttl) : t \in RunTypes, tg \in {Ip1, Ip2},
                                  ttl \in RunTtls}

\* Records as fetch_records builds them: the provider's id.
CurrentUniverse ==
    {Record(t, Foo, tg, 5, ttl) : t \in RunTypes, tg \in {Ip1, Ip2},
                                  ttl \in RunTtls}

\* The ids the provider gives to new records.
NewIds == {7}

RECURSIVE SetsUpTo(_, _)
SetsUpTo(U, k) ==
    IF k <= 0 THEN {{}}
    ELSE LET smaller == SetsUpTo(U, k - 1)
         IN  smaller \cup {s \cup {x} : s \in smaller, x \in U}

Count(seq, x) == Cardinality({k \in 1..Len(seq) : seq[k] = x})
Range(seq) == {seq[k] : k \in 1..Len(seq)}

\* The variables a specification does not use keep these values.
IdleCfg == dry_run = FALSE /\ default_ttl = 0 /\ my_ip = {}
IdleRec == r1 = NoRecord /\ r2 = NoRecord /\ cmp = NoRecord
IdleParse == parts = <<>> /\ line = <<>> /\ parsed = NoRecord
IdleLoad == i = 0 /\ records = {} /\ records_per_type = <<>>
IdleRun ==
    /\ intent = {} /\ current = {} /\ to_add = {} /\ to_remove = {}
    /\ pending = {} /\ add_calls = <<>> /\ delete_calls = <<>>
    /\ client_log = <<>> /\ ret = None /\ run = 1
    /\ first = [created |-> {}, deleted |-> {}]
IdleFetch ==
    zone = {} /\ types_left = <<>> /\ record_ids = {} /\ fetched = {}

----------------------------------------------------------------------------
(* reconcile and apply, as main runs them one after the other *)

Init ==
    /\ dry_run \in BOOLEAN
    /\ default_ttl = 0 /\ my_ip = {}
    /\ IdleRec /\ IdleParse /\ IdleLoad /\ IdleFetch
    /\ intent \in {s \in SetsUpTo(IntentUniverse, MaxRecords) : IsPySet(s)}
    /\ current \in {s \in SetsUpTo(CurrentUniverse,
                                   MaxRecords - Cardinality(intent)) :
                        IsPySet(s)}
    /\ to_add = {} /\ to_remove = {} /\ pending = {}
    /\ add_calls = <<>> /\ delete_calls = <<>> /\ client_log = <<>>
    /\ ret = None /\ run = 1
    /\ first = [created |-> {}, deleted |-> {}]
    /\ pc = "reconcile"

\* A plausible slip: to_remove computed the way to_add is.
ReconcileDiffSwapped ==
    /\ pc = "reconcile"
    /\ to_add' = PyDifference(intent, current)
    /\ to_remove' = PyDifference(intent, current)
    /\ pending' = to_add'
    /\ pc' = "add_loop"
    /\ UNCHANGED <<fetchVars, cfgVars, recVars, parseVars, loadVars,
                   intent, current,
                   add_calls, delete_calls, client_log, ret, run, first>>

\* A plausible slip: everything of intent is created again.
ReconcileDiffAll ==
    /\ pc = "reconcile"
    /\ to_add' = intent
    /\ to_remove' = PyDifference(current, intent)
    /\ pending' = to_add'
    /\ pc' = "add_loop"
    /\ UNCHANGED <<fetchVars, cfgVars, recVars, parseVars, loadVars,
                   intent, current,
                   add_calls, delete_calls, client_log, ret, run, first>>

\* reconcile, its first two lines: the two set differences.
ReconcileDiff ==
    /\ pc = "reconcile"
    /\ to_add' = PyDifference(intent, current)
    /\ to_remove' = PyDifference(current, intent)
    /\ pending' = to_add'
    /\ pc' = "add_loop"
    /\ UNCHANGED <<fetchVars, cfgVars, recVars, parseVars, loadVars,
                   intent, current,
                   add_calls, delete_calls, client_log, ret, run, first>>

\* add_record(r, client): in a dry run it returns 0 and posts nothing;
\* otherwise client.post returns the new record, or raises.
add_record(r) ==
    /\ add_calls' = Append(add_calls, r)
    /\ IF dry_run
       THEN /\ ret' = 0
            /\ UNCHANGED <<client_log, pc>>
       ELSE \E ok \in BOOLEAN :
            /\ client_log' = Append(client_log,
                                    [op |-> "post_record", arg |-> r, ok |-> ok])
            /\ IF ok
               THEN (\E id \in NewIds : ret' = id) /\ UNCHANGED pc
               ELSE pc' = "raised" /\ UNCHANGED ret

\* delete_record(r, client): nothing in a dry run; otherwise client.delete
\* of the record's id, which may raise.
delete_record(r) ==
    /\ delete_calls' = Append(delete_calls, r)
    /\ IF dry_run
       THEN UNCHANGED <<client_log, pc>>
       ELSE \E ok \in BOOLEAN :
            /\ client_log' = Append(client_log,
                                    [op |-> "delete", arg |-> r.id, ok |-> ok])
            /\ pc' = IF ok THEN pc ELSE "raised"

\* A plausible slip: the type check of the first loop left out.
AddLoopNoFilter ==
    /\ pc = "add_loop"
    /\ \E r \in pending :
        /\ pending' = pending \ {r}
        /\ add_record(r)
    /\ UNCHANGED <<fetchVars, cfgVars, recVars, parseVars, loadVars,
                   intent, current,
                   to_add, to_remove, delete_calls, run, first>>

\* A plausible slip: a failed create caught and the loop continued.
AddLoopSwallow ==
    /\ pc = "add_loop"
    /\ \E r \in pending :
        /\ pending' = pending \ {r}
        /\ IF r.type \notin ALLOWED_TYPES
           THEN UNCHANGED <<add_calls, client_log, ret, pc>>
           ELSE /\ add_calls' = Append(add_calls, r)
                /\ IF dry_run
                   THEN ret' = 0 /\ UNCHANGED <<client_log, pc>>
                   ELSE \E ok \in BOOLEAN :
                        /\ client_log' =
                             Append(client_log,
                                    [op |-> "post_record", arg |-> r, ok |-> ok])
                        /\ UNCHANGED pc
                        /\ IF ok THEN (\E id \in NewIds : ret' = id)
                                 ELSE UNCHANGED ret
    /\ UNCHANGED <<fetchVars, cfgVars, recVars, parseVars, loadVars,
                   intent, current,
                   to_add, to_remove, delete_calls, run, first>>

\* reconcile, one turn of `for r in to_add`: a set is walked in no
\* particular order.
AddLoop ==
    /\ pc = "add_loop"
    /\ \E r \in pending :
        /\ pending' = pending \ {r}
        /\ IF r.type \notin ALLOWED_TYPES
           THEN UNCHANGED <<add_calls, client_log, ret, pc>>
           ELSE add_record(r)
    /\ UNCHANGED <<fetchVars, cfgVars, recVars, parseVars, loadVars,
                   intent, current,
                   to_add, to_remove, delete_calls, run, first>>

\* reconcile: the first loop is over, the second starts.
AddLoopEnd ==
    /\ pc = "add_loop"
    /\ pending = {}
    /\ pending' = to_remove
    /\ pc' = "remove_loop"
    /\ UNCHANGED <<fetchVars, cfgVars, recVars, parseVars, loadVars,
                   intent, current,
                   to_add, to_remove, add_calls, delete_calls, client_log,
                   ret, run, first>>

\* reconcile, one turn of `for r in to_remove`.
RemoveLoop ==
    /\ pc = "remove_loop"
    /\ \E r \in pending :
        /\ pending' = pending \ {r}
        /\ IF r.type \notin ALLOWED_TYPES
           THEN UNCHANGED <<delete_calls, client_log, pc>>
           ELSE delete_record(r)
    /\ UNCHANGED <<fetchVars, cfgVars, recVars, parseVars, loadVars,
                   intent, current,
                   to_add, to_remove, add_calls, ret, run, first>>

\* reconcile returns; main goes on to apply.
RemoveLoopEnd ==
    /\ pc = "remove_loop"
    /\ pending = {}
    /\ pc' = "apply"
    /\ UNCHANGED <<fetchVars, cfgVars, recVars, parseVars, loadVars, runVars>>

\* A plausible slip: the dry-run check of apply left out.
ApplyAlways ==
    /\ pc = "apply"
    /\ \E ok \in BOOLEAN :
        /\ client_log' = Append(client_log,
                                [op |-> "post_refresh", arg |-> 0, ok |-> ok])
        /\ pc' = IF ok THEN "done" ELSE "raised"
    /\ UNCHANGED <<fetchVars, cfgVars, recVars, parseVars, loadVars,
                   intent, current,
                   to_add, to_remove, pending, add_calls, delete_calls, ret,
                   run, first>>

\* apply(client): nothing in a dry run; otherwise the refresh post.
Apply ==
    /\ pc = "apply"
    /\ IF dry_run
       THEN pc' = "done" /\ UNCHANGED client_log
       ELSE \E ok \in BOOLEAN :
            /\ client_log' = Append(client_log,
                                    [op |-> "post_refresh", arg |-> 0, ok |-> ok])
            /\ pc' = IF ok THEN "done" ELSE "raised"
    /\ UNCHANGED <<fetchVars, cfgVars, recVars, parseVars, loadVars,
                   intent, current,
                   to_add, to_remove, pending, add_calls, delete_calls, ret,
                   run, first>>

Next ==
    \/ ReconcileDiff
    \/ AddLoop
    \/ AddLoopEnd
    \/ RemoveLoop
    \/ RemoveLoopEnd
    \/ Apply

Spec == Init /\ [][Next]_vars

\* reconcile called a second time, on the same intent and on the current
\* set the first call's creations and deletions leave behind.
Rerun ==
    /\ pc = "apply"
    /\ run = 1
    /\ run' = 2
    /\ first' = [created |-> Range(add_calls), deleted |-> Range(delete_calls)]
    /\ current' = PyDifference(PyUnion(current, Range(add_calls)),
                               Range(delete_calls))
    /\ to_add' = {} /\ to_remove' = {} /\ pending' = {}
    /\ add_calls' = <<>> /\ delete_calls' = <<>>
    /\ pc' = "reconcile"
    /\ UNCHANGED <<fetchVars, cfgVars, recVars, parseVars, loadVars, intent, client_log,
                   ret>>

NextIdem == Next \/ Rerun

SpecIdem == Init /\ [][NextIdem]_vars

----------------------------------------------------------------------------
(* Properties of reconcile and apply *)

\* Record equality as the data model words it: type, subdomain and target
\* alike, and the ttls alike unless one of them is absent; 0 is a ttl.
DocEq(a, b) ==
    /\ a.type = b.type /\ a.subdomain = b.subdomain /\ a.target = b.target
    /\ (a.ttl = None \/ b.ttl = None \/ a.ttl = b.ttl)

Failed(k) == ~client_log[k].ok
Refreshes == {k \in 1..Len(client_log) : client_log[k].op = "post_refresh"}

\* reconcile returned to main without raising.
ReconcileReturned == pc \in {"apply", "done"} \/ (pc = "raised" /\ Refreshes # {})

\* C1: to_add holds no record that compares equal to a record of current,
\* to_remove none that compares equal to a record of intent, and two sets
\* whose records all have an equal record on the other side bring no create
\* and no delete call.
C1_DifferenceUnderEquality ==
    pc # "reconcile" =>
        /\ \A r \in to_add : \A c \in current : ~Eq(r, c)
        /\ \A c \in to_remove : \A r \in intent : ~Eq(c, r)
        /\ ( /\ \A r \in intent : \E c \in current : Eq(r, c)
             /\ \A c \in current : \E r \in intent : Eq(c, r) )
           => (add_calls = <<>> /\ delete_calls = <<>>)

\* C4: once reconcile has returned, every allowed record of intent with no
\* equal record in current was created exactly once, and every allowed record
\* of current with no equal record in intent was deleted exactly once, the
\* call carrying the current record itself, id included.
C4_OneCallPerDifference ==
    ReconcileReturned =>
        /\ \A r \in intent :
             (r.type \in ALLOWED_TYPES /\ \A c \in current : ~DocEq(r, c))
                => Count(add_calls, r) = 1
        /\ \A c \in current :
             (c.type \in ALLOWED_TYPES /\ \A r \in intent : ~DocEq(c, r))
                => /\ Count(delete_calls, c) = 1
                   /\ dry_run \/ \E k \in 1..Len(client_log) :
                                    /\ client_log[k].op = "delete"
                                    /\ client_log[k].arg = c.id

\* A record whose target changed: one delete of the old, one create of the new.
C4_Witness ==
    /\ pc = "done"
    /\ \E r \in intent : \E c \in current :
        /\ intent = {r} /\ current = {c}
        /\ r.type \in ALLOWED_TYPES /\ r.type = c.type
        /\ r.subdomain = c.subdomain /\ r.target # c.target
        /\ add_calls = <<r>> /\ delete_calls = <<c>>

\* C5: no create and no delete is ever invoked on a record whose type is
\* not one of A, AAAA, CNAME, TXT.
C5_OnlyAllowedTypes ==
    /\ \A k \in 1..Len(add_calls) : add_calls[k].type \in ALLOWED_TYPES
    /\ \A k \in 1..Len(delete_calls) : delete_calls[k].type \in ALLOWED_TYPES
    /\ \A k \in 1..Len(client_log) :
         client_log[k].op = "post_record"
            => client_log[k].arg.type \in ALLOWED_TYPES

\* A run over a disallowed record only in intent and one only in current.
C5_Witness ==
    /\ pc = "done"
    /\ \E r \in to_add : r.type \notin ALLOWED_TYPES
    /\ \E c \in to_remove : c.type \notin ALLOWED_TYPES

\* C6: the second reconcile, on the current set the first one leaves,
\* invokes no create and no delete.
C6_Idempotent == run = 2 => (add_calls = <<>> /\ delete_calls = <<>>)

\* The second reconcile has returned, after a first that created and deleted.
C6_Witness ==
    /\ run = 2 /\ pc = "apply"
    /\ first.created # {} /\ first.deleted # {}

\* C7: a failed gateway call is the last call of the run: nothing is called
\* after it (no retry, no further create or delete, no refresh, no undoing
\* call), and the run has stopped.
C7_FailureStopsRun ==
    /\ \A k \in 1..Len(client_log) :
         Failed(k) => (k = Len(client_log) /\ pc = "raised")
    /\ ~dry_run =>
         Len(add_calls) + Len(delete_calls)
            = Cardinality((1..Len(client_log)) \ Refreshes)

\* A second create failed after a first succeeded, with a delete still due.
C7_Witness ==
    /\ pc = "raised"
    /\ Len(client_log) = 2
    /\ client_log[2].op = "post_record"
    /\ \E c \in to_remove : c.type \in ALLOWED_TYPES

\* C8: in a dry run the client is never called and add_record returns 0;
\* without dry run a finished run has posted the refresh exactly once.
C8_DryRunCallsNothing ==
    /\ dry_run => (client_log = <<>> /\ (add_calls # <<>> => ret = 0))
    /\ (~dry_run /\ pc = "done") => Cardinality(Refreshes) = 1

\* A finished dry run that had a record to create and one to delete.
C8_Witness ==
    /\ dry_run /\ pc = "done"
    /\ add_calls # <<>> /\ delete_calls # <<>>

----------------------------------------------------------------------------
(* Two Records compared and hashed *)

Bar == <<"b", "a", "r">>

RecordUniverse ==
    {Record(t, sd, tg, id, ttl) :
        t \in {"A", "CNAME"}, sd \in {Foo, Bar}, tg \in {Ip1, Ip2},
        id \in {0, 5}, ttl \in {None, 0, 10, 20, 42}}

InitRecord ==
    /\ IdleCfg /\ IdleParse /\ IdleLoad /\ IdleRun /\ IdleFetch
    /\ r1 \in RecordUniverse
    /\ r2 \in RecordUniverse
    /\ cmp = NoRecord
    /\ pc = "compare"

\* r1 == r2, hash(r1), hash(r2)
Compare ==
    /\ pc = "compare"
    /\ cmp' = [eq |-> Eq(r1, r2), hash1 |-> Hash(r1), hash2 |-> Hash(r2)]
    /\ pc' = "compared"
    /\ UNCHANGED <<fetchVars, cfgVars, r1, r2, parseVars, loadVars, runVars>>

SpecRecord == InitRecord /\ [][Compare]_vars

\* C2: two Records that compare equal hash equal.
C2_EqualRecordsHashEqual ==
    (pc = "compared" /\ cmp.eq) => cmp.hash1 = cmp.hash2

\* C3: two Records compare equal exactly when type, subdomain and target
\* are alike and one ttl is absent or both are the same number, 0 being a
\* ttl like any other; the id plays no part.
C3_EqualityRule ==
    pc = "compared" => (cmp.eq <=> DocEq(r1, r2))

----------------------------------------------------------------------------
(* The regular expressions.  A string is a sequence of characters; a match *)
(* is modelled by where each piece of the pattern ends.                    *)

\* \s
Space == {" ", "\t", "\n", "\r", "\f"}
\* [0-9] and \d
Digit == {"0", "1", "2", "3", "4", "5", "6", "7", "8", "9"}
Lower == {"a", "b", "c", "d", "e", "f", "g", "h", "i", "j", "k", "l", "m",
          "n", "o", "p", "q", "r", "s", "t", "u", "v", "w", "x", "y", "z"}
Upper == {"A", "B", "C", "D", "E", "F", "G", "H", "I", "J", "K", "L", "M",
          "N", "O", "P", "Q", "R", "S", "T", "U", "V", "W", "X", "Y", "Z"}
\* [-.@|a-zA-Z0-9_] of RE_SUBDOMAIN and RE_TARGET
SubChar == {"-", ".", "@", "|", "_"} \cup Lower \cup Upper \cup Digit
\* [a-f0-9] of RE_IPV6
HexChar == {"a", "b", "c", "d", "e", "f"} \cup Digit
Quote == "\""

\* Every character of s[lo..hi] is in class C.
AllIn(s, lo, hi, C) == \A k \in lo..hi : s[k] \in C

\* The word stands in s at position pos.
HasAt(s, pos, word) ==
    /\ pos >= 1
    /\ pos + Len(word) - 1 <= Len(s)
    /\ \A k \in 1..Len(word) : s[pos + k - 1] = word[k]

\* re.fullmatch(RE_IPV4, s): \d{1,3}\.\d{1,3}\.\d{1,3}\.\d{1,3}
IsIPv4(s) ==
    \E d1 \in 1..Len(s) : \E d2 \in (d1 + 1)..Len(s) : \E d3 \in (d2 + 1)..Len(s) :
        /\ s[d1] = "." /\ s[d2] = "." /\ s[d3] = "."
        /\ d1 - 1 \in 1..3 /\ AllIn(s, 1, d1 - 1, Digit)
        /\ d2 - d1 - 1 \in 1..3 /\ AllIn(s, d1 + 1, d2 - 1, Digit)
        /\ d3 - d2 - 1 \in 1..3 /\ AllIn(s, d2 + 1, d3 - 1, Digit)
        /\ Len(s) - d3 \in 1..3 /\ AllIn(s, d3 + 1, Len(s), Digit)

\* re.fullmatch(RE_IPV6, s): ([a-f0-9:]+:+)+[a-f0-9]+ .  The groups end at
\* a colon that has at least one character of the class before it; what
\* follows the last such colon is a run of hex digits.
IsIPv6(s) ==
    \E k \in 2..(Len(s) - 1) :
        /\ s[k] = ":"
        /\ AllIn(s, 1, k - 1, HexChar \cup {":"})
        /\ AllIn(s, k + 1, Len(s), HexChar)

\* "[^"]*" : the text between the quotes, as a set of at most one string.
Quoted(s, lo, hi) ==
    IF /\ hi > lo /\ s[lo] = Quote /\ s[hi] = Quote
       /\ \A k \in (lo + 1)..(hi - 1) : s[k] # Quote
    THEN {SubSeq(s, lo + 1, hi - 1)}
    ELSE {}

\* RE_IPV4 as the value of a line: the group ipv4.
ValueIPv4(s) == IF IsIPv4(s) THEN {s} ELSE {}
\* RE_IPV6 as the value of a line: the group ipv6.
ValueIPv6(s) == IF IsIPv6(s) THEN {s} ELSE {}
\* RE_TARGET: [-.@|a-zA-Z0-9_]*
ValueTarget(s) == IF AllIn(s, 1, Len(s), SubChar) THEN {s} ELSE {}
\* RE_TXT: "txt1" or ( "txt2" ); the target is (txt1 or '') + (txt2 or '').
ValueTxt(s) ==
    Quoted(s, 1, Len(s))
    \cup UNION { Quoted(s, lo, hi) :
                   lo \in {k \in 2..Len(s) :
                             /\ s[1] = "(" /\ s[Len(s)] = ")"
                             /\ AllIn(s, 2, k - 1, Space)},
                   hi \in {k \in 1..(Len(s) - 1) :
                             AllIn(s, k + 1, Len(s) - 1, Space)} }

\* The type keyword of a line, as text.
KeywordText(kw) ==
    CASE kw = "A" -> <<"A">>
      [] kw = "AAAA" -> <<"A", "A", "A", "A">>
      [] kw = "TXT" -> <<"T", "X", "T">>
      [] kw = "CNAME" -> <<"C", "N", "A", "M", "E">>
      [] kw = "MX" -> <<"M", "X">>

\* The value pattern that ends RE_RECORD_<kw>: what it matches of s.
ValueOf(kw, s) ==
    CASE kw = "A" -> ValueIPv4(s)
      [] kw = "AAAA" -> ValueIPv6(s)
      [] kw = "TXT" -> ValueTxt(s)
      [] kw = "CNAME" -> ValueTarget(s)

\* Before IN, RE_RECORD_A and RE_RECORD_AAAA have \s*, RE_RECORD_CNAME and
\* RE_RECORD_TXT have \s+ : the least number of spaces there.
SpacesBeforeIn(kw) == IF kw \in {"A", "AAAA"} THEN 0 ELSE 1

\* IN\s+<keyword>\s+<value>\s*$ from position e + 1 on: the values matched.
TailValues(s, e, kw) ==
    IF ~HasAt(s, e + 1, <<"I", "N">>) THEN {}
    ELSE LET n == Len(s)
             afterIn == e + 3
             afterKw(k) == k + Len(KeywordText(kw)) + 1
             ws1 == {k \in afterIn..n :
                        /\ AllIn(s, afterIn, k, Space)
                        /\ HasAt(s, k + 1, KeywordText(kw))}
         IN  UNION { UNION { UNION { ValueOf(kw, SubSeq(s, m + 1, z)) :
                                       z \in {x \in m..n :
                                                AllIn(s, x + 1, n, Space)} } :
                               m \in {x \in afterKw(k)..n :
                                        AllIn(s, afterKw(k), x, Space)} } :
                     k \in ws1 }

\* ^\s*<subdomain>\s*<ttl>\s*  (\s+ for CNAME and TXT)  then the tail: every
\* way the five greedy pieces can end, as <<a, b, c, d, e>>.
Splits(s, kw) ==
    LET n == Len(s)
    IN  UNION { UNION { UNION { UNION {
            { <<a, b, c, d, e>> :
                e \in {x \in (d + SpacesBeforeIn(kw))..n :
                         /\ AllIn(s, d + 1, x, Space)
                         /\ TailValues(s, x, kw) # {}} } :
            d \in {x \in c..n : AllIn(s, c + 1, x, Digit)} } :
            c \in {x \in b..n : AllIn(s, b + 1, x, Space)} } :
            b \in {x \in a..n : AllIn(s, a + 1, x, SubChar)} } :
            a \in {x \in 0..n : AllIn(s, 1, x, Space)} }

\* t is tried before u by the backtracking matcher: every piece is greedy,
\* so the earlier piece that takes more wins.
TriedFirst(t, u) ==
    \/ t = u
    \/ \E k \in 1..5 : t[k] > u[k] /\ \A j \in 1..(k - 1) : t[j] = u[j]

\* re.fullmatch(RE_RECORD_<kw>, s, re.MULTILINE): the groups of the first
\* match the matcher finds, as a set of at most one.
FullMatch(s, kw) ==
    LET all == Splits(s, kw)
    IN  IF all = {} THEN {}
        ELSE LET t == CHOOSE x \in all : \A y \in all : TriedFirst(x, y)
             IN  { [subdomain |-> SubSeq(s, t[1] + 1, t[2]),
                    ttl |-> SubSeq(s, t[3] + 1, t[4]),
                    value |-> CHOOSE v \in TailValues(s, t[5], kw) : TRUE] }

----------------------------------------------------------------------------
(* The line parser *)

DigitChars == <<"0", "1", "2", "3", "4", "5", "6", "7", "8", "9">>
DigitValue(c) == (CHOOSE k \in 1..10 : DigitChars[k] = c) - 1

\* int(s) for a run of digits
RECURSIVE StrToInt(_)
StrToInt(s) ==
    IF s = <<>> THEN 0
    ELSE 10 * StrToInt(SubSeq(s, 1, Len(s) - 1)) + DigitValue(s[Len(s)])

\* A plausible slip: `int(ttl) or default`, an explicit 0 lost.
TtlOfZeroLost(digits) ==
    IF digits # <<>> /\ StrToInt(digits) # 0 THEN StrToInt(digits)
    ELSE default_ttl

\* ttl = result.group('ttl') or _DEFAULT_TTL.value; if ttl: ttl = int(ttl).
\* A non-empty run is truthy, "0" included, and is converted; an empty one
\* gives way to the default, which int() leaves as it is.
TtlOf(digits) == IF digits # <<>> THEN StrToInt(digits) ELSE default_ttl

parse_a_record(s) ==
    LET result == FullMatch(s, "A")
    IN  IF result = {} THEN NoRecord
        ELSE LET m == CHOOSE x \in result : TRUE
             IN  Record("A", m.subdomain, m.value, 0, TtlOf(m.ttl))

parse_aaaa_record(s) ==
    LET result == FullMatch(s, "AAAA")
    IN  IF result = {} THEN NoRecord
        ELSE LET m == CHOOSE x \in result : TRUE
             IN  Record("AAAA", m.subdomain, m.value, 0, TtlOf(m.ttl))

parse_txt_record(s) ==
    LET result == FullMatch(s, "TXT")
    IN  IF result = {} THEN NoRecord
        ELSE LET m == CHOOSE x \in result : TRUE
             IN  Record("TXT", m.subdomain, m.value, 0, TtlOf(m.ttl))

\* A plausible slip: only the target is looked at for an IP address.
CnameTargetOnly(s) ==
    LET result == FullMatch(s, "CNAME")
    IN  IF result = {} THEN NoRecord
        ELSE LET m == CHOOSE x \in result : TRUE
             IN  IF IsIPv4(m.value) \/ IsIPv6(m.value)
                 THEN NoRecord
                 ELSE Record("CNAME", m.subdomain, m.value, 0, TtlOf(m.ttl))

parse_cname_record(s) ==
    LET result == FullMatch(s, "CNAME")
    IN  IF result = {} THEN NoRecord
        ELSE LET m == CHOOSE x \in result : TRUE
             IN  IF \/ IsIPv4(m.subdomain) \/ IsIPv6(m.subdomain)
                    \/ IsIPv4(m.value) \/ IsIPv6(m.value)
                 THEN NoRecord
                 ELSE Record("CNAME", m.subdomain, m.value, 0, TtlOf(m.ttl))

PublicIpToken == <<"{", "P", "U", "B", "L", "I", "C", "_", "I", "P", "}">>

\* s.replace(old, new), from position k on: left to right, no overlap.
RECURSIVE ReplaceFrom(_, _, _, _)
ReplaceFrom(s, k, old, new) ==
    IF k > Len(s) THEN <<>>
    ELSE IF HasAt(s, k, old) THEN new \o ReplaceFrom(s, k + Len(old), old, new)
    ELSE <<s[k]>> \o ReplaceFrom(s, k + 1, old, new)

\* parse_line(line, my_ip); a Record is a non-empty tuple, so `if record`
\* is true of every Record.
parse_line(s, ip) ==
    LET text == IF ip # {} /\ ip # {<<>>}
                THEN ReplaceFrom(s, 1, PublicIpToken, CHOOSE x \in ip : TRUE)
                ELSE s
        a == parse_a_record(text)
        aaaa == parse_aaaa_record(text)
        txt == parse_txt_record(text)
    IN  IF a # NoRecord THEN a
        ELSE IF aaaa # NoRecord THEN aaaa
        ELSE IF txt # NoRecord THEN txt
        ELSE parse_cname_record(text)

----------------------------------------------------------------------------
(* The lines the parser is given: written token by token, read as text *)

Sp == <<" ">>
Ip6 == <<":", ":", "1">>
Host == <<"g", ".", "h">>

LeadTokens == {<<>>, Sp}
SubdomainTokens ==
    {<<>>, Foo, <<"@">>, <<"6">>, <<"I", "N">>, Ip1, Ip6, PublicIpToken}
TtlTokens == {<<>>, <<"0">>, <<"6", "0">>, <<"0", "0", "7">>}
TrailTokens == {<<>>, <<"\n">>}
KeywordAndValue ==
    {<<"A", Ip1>>, <<"A", PublicIpToken>>,
     <<"AAAA", Ip6>>, <<"AAAA", PublicIpToken>>,
     <<"TXT", <<Quote, "v", Quote>>>>,
     <<"TXT", <<"(", " ", Quote, "v", Quote, " ", ")">>>>,
     <<"TXT", <<Quote>> \o PublicIpToken \o <<Quote>>>>,
     <<"CNAME", Host>>, <<"CNAME", Ip1>>, <<"CNAME", Ip6>>,
     <<"CNAME", PublicIpToken>>,
     <<"MX", Host>>}

LineParts ==
    {[lead |-> l, subdomain |-> sd, ttl |-> t, keyword |-> kv[1],
      value |-> kv[2], trail |-> tr] :
        l \in LeadTokens, sd \in SubdomainTokens, t \in TtlTokens,
        kv \in KeywordAndValue, tr \in TrailTokens}

\* The line as written: <subdomain> [<ttl>] IN <TYPE> <value>, one space
\* after each token that is there.
TextOf(p) ==
    p.lead
    \o (IF p.subdomain = <<>> THEN <<>> ELSE p.subdomain \o Sp)
    \o (IF p.ttl = <<>> THEN <<>> ELSE p.ttl \o Sp)
    \o <<"I", "N">> \o Sp \o KeywordText(p.keyword) \o Sp
    \o p.value \o p.trail

DefaultTtls == {None, 0, 180}
PublicIps == {{}, {Ip2}}

InitParse ==
    /\ dry_run = FALSE
    /\ default_ttl \in DefaultTtls
    /\ my_ip \in PublicIps
    /\ IdleRec /\ IdleLoad /\ IdleRun /\ IdleFetch
    /\ parts \in LineParts
    /\ line = TextOf(parts)
    /\ parsed = NoRecord
    /\ pc = "parse"

\* record = parse_line(line, my_ip)
ParseLine ==
    /\ pc = "parse"
    /\ parsed' = parse_line(line, my_ip)
    /\ pc' = "parsed"
    /\ UNCHANGED <<fetchVars, cfgVars, recVars, parts, line, loadVars, runVars>>

SpecParse == InitParse /\ [][ParseLine]_vars

Accepted == pc = "parsed" /\ parsed # NoRecord

\* C10 as claimed: an accepted line with a ttl run gets the run's value as
\* its ttl, and one without gets the default ttl, whatever the subdomain.
C10_TtlOfEveryLine ==
    Accepted =>
        /\ parts.ttl # <<>> => parsed.ttl = StrToInt(parts.ttl)
        /\ parts.ttl = <<>> => parsed.ttl = default_ttl

\* C10 as it holds: with a subdomain token before it, a ttl run gives the
\* Record its value (an explicit 0 gives 0); without a ttl run the Record
\* gets the default ttl; a ttl run with no subdomain token before it is read
\* as the subdomain, and the Record gets the default ttl.
C10_TtlAfterSubdomain ==
    Accepted =>
        /\ (parts.subdomain # <<>> /\ parts.ttl # <<>>)
              => parsed.ttl = StrToInt(parts.ttl)
        /\ parts.ttl = <<>> => parsed.ttl = default_ttl
        /\ (parts.subdomain = <<>> /\ parts.ttl # <<>>)
              => (parsed.subdomain = parts.ttl /\ parsed.ttl = default_ttl)

\* An accepted line with an explicit ttl of 0 under a non-zero default.
C10_Witness ==
    /\ Accepted
    /\ parts.subdomain # <<>> /\ parts.ttl = <<"0">>
    /\ default_ttl = 180
    /\ parsed.ttl = 0

\* The text has the shape of an IP address: RE_IPV4 or RE_IPV6 matches it.
LooksLikeIp(s) == IsIPv4(s) \/ IsIPv6(s)

\* C11: a CNAME line whose subdomain or target is written as an IPv4 or an
\* IPv6 address is not parsed, whatever its ttl and its other field; and no
\* CNAME Record that parse_line returns has a subdomain or a target of
\* that shape.
C11_CnameWithIpRejected ==
    /\ (/\ pc = "parsed" /\ parts.keyword = "CNAME"
        /\ (LooksLikeIp(parts.subdomain) \/ LooksLikeIp(parts.value)))
          => parsed = NoRecord
    /\ (Accepted /\ parsed.type = "CNAME")
          => (~LooksLikeIp(parsed.subdomain) /\ ~LooksLikeIp(parsed.target))

\* A CNAME line with an IPv4 subdomain, a ttl and a host name as target
\* was read and not parsed.
C11_Witness ==
    /\ pc = "parsed" /\ parsed = NoRecord
    /\ parts.keyword = "CNAME" /\ parts.subdomain = Ip1
    /\ parts.ttl = <<"6", "0">> /\ parts.value = Host

\* The {PUBLIC_IP} token stands somewhere in the text.
HoldsToken(s) == \E k \in 1..Len(s) : HasAt(s, k, PublicIpToken)

\* C12: without a public IP (my_ip is None) a line that holds the
\* {PUBLIC_IP} token is not parsed, whatever its type and wherever the token
\* stands, so no Record that parse_line returns holds the token.
C12_TokenLineNotParsed ==
    /\ (pc = "parsed" /\ my_ip = {} /\ HoldsToken(line)) => parsed = NoRecord
    /\ (Accepted /\ my_ip = {})
          => (~HoldsToken(parsed.subdomain) /\ ~HoldsToken(parsed.target))

\* The well-formed values among those written, with the target each gives.
WrittenTarget(p) ==
    CASE <<p.keyword, p.value>> \in
            {<<"A", Ip1>>, <<"AAAA", Ip6>>, <<"CNAME", Host>>} -> {p.value}
      [] p.keyword = "TXT" /\ ~HoldsToken(p.value) -> {<<"v">>}
      [] OTHER -> {}

\* C13: a well-formed line with no subdomain token, with or without leading
\* whitespace and with or without a ttl, is parsed into a Record of the
\* line's type with the empty subdomain, the line's target and the line's
\* ttl (the default when it has none), for A, AAAA, TXT and CNAME alike.
C13_EmptySubdomainParsed ==
    (pc = "parsed" /\ parts.subdomain = <<>> /\ WrittenTarget(parts) # {})
        => /\ parsed # NoRecord
           /\ parsed.type = parts.keyword
           /\ parsed.subdomain = <<>>
           /\ parsed.target \in WrittenTarget(parts)
           /\ parsed.ttl = (IF parts.ttl = <<>> THEN default_ttl
                            ELSE StrToInt(parts.ttl))

----------------------------------------------------------------------------
(* The zone loader *)

\* The most lines the input holds.
MaxLines == 2

\* The lines of the input file: each ends with its newline.
LoadParts ==
    {p \in LineParts :
        /\ p.lead = <<>> /\ p.trail = <<"\n">>
        /\ p.subdomain \in {<<>>, Foo}
        /\ p.ttl \in {<<>>, <<"0">>, <<"6", "0">>}
        /\ <<p.keyword, p.value>> \in
             {<<"A", Ip1>>, <<"CNAME", Host>>, <<"CNAME", Ip1>>, <<"MX", Host>>}}

InitLoad ==
    /\ dry_run = FALSE
    /\ default_ttl \in DefaultTtls
    /\ my_ip \in PublicIps
    /\ IdleRec /\ IdleParse /\ IdleRun /\ IdleFetch
    /\ i = 0
    /\ records = {}
    /\ records_per_type = [t \in ALLOWED_TYPES |-> <<>>]
    /\ pc = "load"

\* parse_input, one turn of `for line in f`, the file holding lines of P
ReadLineOf(P) ==
    /\ pc = "load"
    /\ i < MaxLines
    /\ \E p \in P :
        /\ parts' = p
        /\ line' = TextOf(p)
        /\ i' = i + 1
        /\ parsed' = parse_line(line', my_ip)
        /\ IF parsed' = NoRecord
           THEN UNCHANGED <<records, records_per_type>>
           ELSE /\ records' = PyAdd(records, parsed')
                /\ records_per_type' =
                     [records_per_type EXCEPT
                        ![parsed'.type] = Append(@, parsed')]
    /\ UNCHANGED <<fetchVars, cfgVars, recVars, runVars, pc>>

ReadLine == ReadLineOf(LoadParts)

\* parse_input: the input is at its end, records is returned.
EndOfInput ==
    /\ pc = "load"
    /\ pc' = "loaded"
    /\ UNCHANGED <<fetchVars, cfgVars, recVars, parseVars, loadVars, runVars>>

NextLoad == ReadLine \/ EndOfInput

SpecLoad == InitLoad /\ [][NextLoad]_vars

\* C9: the loaded set holds no two distinct entries that compare equal.
C9_NoEqualEntries ==
    \A x \in records : \A y \in records : x # y => ~Eq(x, y)

----------------------------------------------------------------------------
(* main: the input is loaded, the zone fetched type by type, then         *)
(* reconcile and apply run                                                 *)

\* ALLOWED_TYPES in the order of the list, which the for loops follow.
AllowedTypeList == <<"A", "AAAA", "CNAME", "TXT">>

\* The records the provider may hold, each under its own id.
ZoneUniverse ==
    {Record("A", Foo, Ip1, 5, 0), Record("A", Foo, Ip2, 6, 60),
     Record("CNAME", Foo, Host, 8, 0)}

\* The lines the input of a whole run is made of.
MainParts ==
    {p \in LoadParts :
        \/ p.subdomain = Foo /\ p.ttl = <<>>
           /\ <<p.keyword, p.value>> \in
                {<<"A", Ip1>>, <<"CNAME", Host>>, <<"MX", Host>>}
        \/ p.subdomain = Foo /\ p.ttl = <<"6", "0">>
           /\ <<p.keyword, p.value>> = <<"A", Ip1>>}

InitMain ==
    /\ dry_run \in BOOLEAN
    /\ default_ttl = 0 /\ my_ip = {}
    /\ IdleRec /\ IdleParse /\ IdleRun
    /\ i = 0
    /\ records = {}
    /\ records_per_type = [t \in ALLOWED_TYPES |-> <<>>]
    /\ zone \in SUBSET ZoneUniverse
    /\ types_left = <<>> /\ record_ids = {} /\ fetched = {}
    /\ pc = "load"

\* main: parse_input reads one more line of the input.
MainReadLine == ReadLineOf(MainParts)

\* main: intent = parse_input() has returned; current = set(); the loop
\* over ALLOWED_TYPES starts.
MainParsed ==
    /\ pc = "load"
    /\ intent' = records
    /\ current' = {}
    /\ types_left' = AllowedTypeList
    /\ pc' = "fetch"
    /\ UNCHANGED <<cfgVars, recVars, parseVars, loadVars, to_add, to_remove,
                   pending, add_calls, delete_calls, client_log, ret, run,
                   first, zone, record_ids, fetched>>
\* fetch_records(type, client), its first call: client.get of the ids of
\* the records of the type, which may raise.
FetchIds ==
    /\ pc = "fetch"
    /\ types_left # <<>>
    /\ \E ok \in BOOLEAN :
        /\ client_log' = Append(client_log,
                                [op |-> "get_ids", arg |-> Head(types_left),
                                 ok |-> ok])
        /\ IF ok
           THEN /\ record_ids' = {z.id : z \in {y \in zone :
                                                  y.type = Head(types_left)}}
                /\ fetched' = {}
                /\ pc' = "fetch_records"
           ELSE /\ pc' = "raised"
                /\ UNCHANGED <<record_ids, fetched>>
    /\ UNCHANGED <<cfgVars, recVars, parseVars, loadVars, intent, current,
                   to_add, to_remove, pending, add_calls, delete_calls, ret,
                   run, first, zone, types_left>>

\* fetch_records, one turn of `for id in record_ids`: client.get of the
\* record, which may raise, and records.add of the Record built from it.
FetchRecord ==
    /\ pc = "fetch_records"
    /\ \E id \in record_ids : \E ok \in BOOLEAN :
        /\ client_log' = Append(client_log,
                                [op |-> "get_record", arg |-> id, ok |-> ok])
        /\ IF ok
           THEN LET d == CHOOSE z \in zone : z.id = id
                IN  /\ fetched' = PyAdd(fetched,
                                        Record(Head(types_left), d.subdomain,
                                               d.target, id, d.ttl))
                    /\ record_ids' = record_ids \ {id}
                    /\ UNCHANGED pc
           ELSE /\ pc' = "raised"
                /\ UNCHANGED <<record_ids, fetched>>
    /\ UNCHANGED <<cfgVars, recVars, parseVars, loadVars, intent, current,
                   to_add, to_remove, pending, add_calls, delete_calls, ret,
                   run, first, zone, types_left>>

\* A plausible slip: current = fetch_records(...), the types fetched
\* before forgotten.
FetchReturnOverwrite ==
    /\ pc = "fetch_records"
    /\ record_ids = {}
    /\ current' = fetched
    /\ types_left' = Tail(types_left)
    /\ pc' = "fetch"
    /\ UNCHANGED <<cfgVars, recVars, parseVars, loadVars, intent, to_add,
                   to_remove, pending, add_calls, delete_calls, client_log,
                   ret, run, first, zone, record_ids, fetched>>

\* fetch_records returns its set; main: current = current.union(...), and
\* the loop goes to the next type.
FetchReturn ==
    /\ pc = "fetch_records"
    /\ record_ids = {}
    /\ current' = PyUnion(current, fetched)
    /\ types_left' = Tail(types_left)
    /\ pc' = "fetch"
    /\ UNCHANGED <<cfgVars, recVars, parseVars, loadVars, intent, to_add,
                   to_remove, pending, add_calls, delete_calls, client_log,
                   ret, run, first, zone, record_ids, fetched>>

\* main: every type is fetched; reconcile(intent, current, client) is
\* called.
FetchDone ==
    /\ pc = "fetch"
    /\ types_left = <<>>
    /\ pc' = "reconcile"
    /\ UNCHANGED <<fetchVars, cfgVars, recVars, parseVars, loadVars, runVars>>

NextMain ==
    \/ MainReadLine
    \/ MainParsed
    \/ FetchIds
    \/ FetchRecord
    \/ FetchReturn
    \/ FetchDone
    \/ Next

SpecMain == InitMain /\ [][NextMain]_vars
\* The places of the client's calls in the run, by kind.
Fetches ==
    {k \in 1..Len(client_log) : client_log[k].op \in {"get_ids", "get_record"}}
Changes ==
    {k \in 1..Len(client_log) : client_log[k].op \in {"post_record", "delete"}}

\* The run has reached the diff: reconcile is running or over, or a create,
\* delete or refresh call was made.
DiffReached ==
    \/ pc \in {"reconcile", "add_loop", "remove_loop", "apply", "done"}
    \/ Changes # {}
    \/ Refreshes # {}

\* One successful listing call per allowed type, one successful get per
\* record of the zone, and current holding the whole zone and nothing else.
FetchComplete ==
    /\ \A t \in ALLOWED_TYPES :
         Cardinality({k \in Fetches : /\ client_log[k].op = "get_ids"
                                      /\ client_log[k].arg = t
                                      /\ client_log[k].ok}) = 1
    /\ \A z \in zone :
         Cardinality({k \in Fetches : /\ client_log[k].op = "get_record"
                                      /\ client_log[k].arg = z.id
                                      /\ client_log[k].ok}) = 1
    /\ current \subseteq zone
    /\ \A z \in zone : PyContains(current, z)

\* The phases as the states show them.
PhasesInOrder ==
    /\ pc = "load" => client_log = <<>>
    /\ \A k \in Fetches : \A j \in Changes \cup Refreshes : k < j
    /\ DiffReached => FetchComplete
    /\ \A k \in Refreshes : k = Len(client_log)
    /\ Refreshes # {} =>
         /\ pending = {}
         /\ Len(add_calls) = Cardinality({r \in to_add : r.type \in ALLOWED_TYPES})
         /\ Len(delete_calls) =
              Cardinality({r \in to_remove : r.type \in ALLOWED_TYPES})

\* The phases as the steps show them: once the client has been called the
\* input is read no further, and once the diff is reached neither set
\* changes.
PhaseSteps ==
    /\ client_log # <<>> => UNCHANGED <<i, records, intent>>
    /\ DiffReached => UNCHANGED <<intent, current>>

\* C14: in every run of main the input is wholly loaded before the first
\* gateway call; every fetch (one listing per allowed type and one get per
\* record) is over and current holds the whole zone before the diff is
\* computed and before the first create or delete; and the refresh call
\* comes after the last create or delete, at most once, as the last call.
C14_PhaseOrder == [](PhasesInOrder) /\ [][PhaseSteps]_vars

\* A run that was not dry fetched two records, created one, deleted one
\* and refreshed.
C14_Witness ==
    /\ pc = "done" /\ ~dry_run
    /\ Cardinality(zone) >= 2
    /\ add_calls # <<>> /\ delete_calls # <<>>
    /\ Refreshes # {}
====
